---- MODULE Spec2Model ----
(***************************************************************************)
(* Model of converter.js: the Mermaid-to-Draw.io sitemap converter.        *)
(* Strings are sequences of one-character strings, so that the regular     *)
(* expressions of the parser are modelled by what they match.              *)
(***************************************************************************)
EXTENDS Integers, Sequences, FiniteSets, TLC

\* ------------------------------------------------------------- characters

\* The class [a-zA-Z0-9_] of nodePattern and of the id extraction.
IdChars ==
  { "a","b","c","d","e","f","g","h","i","j","k","l","m","n","o","p","q","r",
    "s","t","u","v","w","x","y","z",
    "A","B","C","D","E","F","G","H","I","J","K","L","M","N","O","P","Q","R",
    "S","T","U","V","W","X","Y","Z",
    "0","1","2","3","4","5","6","7","8","9","_" }

\* What \s and trim() remove (the members that occur in the modelled texts).
WhiteSpace == { " ", "\t", "\r" }

\* What the regular expression's . does not match.
LineTerminators == { "\n", "\r" }

\* s.substring(from - 1, to - 1) with 1-based, inclusive bounds.
Sub(s, from, to) == IF from > to THEN << >> ELSE SubSeq(s, from, to)

\* ------------------------------------------------------------ parseMermaid

\* text.split('\n'), from index p on: one step per line.
RECURSIVE splitFrom(_, _)
splitFrom(text, p) ==
  LET nl == { i \in p..Len(text) : text[i] = "\n" }
  IN IF nl = {} THEN << Sub(text, p, Len(text)) >>
     ELSE LET q == CHOOSE i \in nl : \A j \in nl : i <= j
          IN << Sub(text, p, q - 1) >> \o splitFrom(text, q + 1)

splitLines(text) == splitFrom(text, 1)

\* line.trim()
RECURSIVE trimLeft(_)
trimLeft(s) ==
  IF s # << >> /\ Head(s) \in WhiteSpace \cup {"\n"} THEN trimLeft(Tail(s)) ELSE s

RECURSIVE trimRight(_)
trimRight(s) ==
  IF s # << >> /\ s[Len(s)] \in WhiteSpace \cup {"\n"}
  THEN trimRight(Sub(s, 1, Len(s) - 1)) ELSE s

trim(s) == trimRight(trimLeft(s))

\* cleanLine.startsWith(prefix)
startsWith(s, prefix) ==
  Len(s) >= Len(prefix) /\ Sub(s, 1, Len(prefix)) = prefix

GraphKw == << "g","r","a","p","h" >>
FlowchartKw == << "f","l","o","w","c","h","a","r","t" >>

\* The early return of the forEach callback.
skipLine(cleanLine) ==
  cleanLine = << >> \/ startsWith(cleanLine, GraphKw) \/ startsWith(cleanLine, FlowchartKw)

\* The index after the greedy run [a-zA-Z0-9_]+ that starts at i.
RECURSIVE idRunEnd(_, _)
idRunEnd(s, i) ==
  IF i <= Len(s) /\ s[i] \in IdChars THEN idRunEnd(s, i + 1) ELSE i

\* The lazy group (.+?) closed by `close`: the index of the first `close` at
\* or after from + 1 with only non-terminators before it, or 0.
lazyClose(s, from, close) ==
  LET cands == { k \in (from + 1)..Len(s) : s[k] = close }
  IN IF cands = {} THEN 0
     ELSE LET k == CHOOSE x \in cands : \A y \in cands : x <= y
          IN IF \A j \in from..(k - 1) : s[j] \notin LineTerminators THEN k ELSE 0

\* One match of nodePattern whose identifier starts at p:
\* [id, cap (match[2] or match[3], << >> when undefined), next].
nodeMatchAt(s, p) ==
  LET e  == idRunEnd(s, p)
      id == Sub(s, p, e - 1)
      kb == IF e <= Len(s) /\ s[e] = "[" THEN lazyClose(s, e + 1, "]") ELSE 0
      kp == IF e <= Len(s) /\ s[e] = "(" THEN lazyClose(s, e + 1, ")") ELSE 0
  IN IF kb > 0 THEN [id |-> id, cap |-> Sub(s, e + 1, kb - 1), next |-> kb + 1]
     ELSE IF kp > 0 THEN [id |-> id, cap |-> Sub(s, e + 1, kp - 1), next |-> kp + 1]
     ELSE [id |-> id, cap |-> << >>, next |-> e]

\* [...cleanLine.matchAll(nodePattern)]
RECURSIVE matchAllNodes(_, _)
matchAllNodes(s, p) ==
  IF p > Len(s) THEN << >>
  ELSE IF s[p] \notin IdChars THEN matchAllNodes(s, p + 1)
  ELSE LET m == nodeMatchAt(s, p)
       IN << [id |-> m.id, cap |-> m.cap] >> \o matchAllNodes(s, m.next)

\* match[2] || match[3] || id
matchLabel(m) == IF m.cap # << >> THEN m.cap ELSE m.id

hasNode(nodes, id) == \E i \in 1..Len(nodes) : nodes[i].id = id

\* addMatch with the label of every later occurrence written, bare or not.
addMatchAlwaysUpdates(nodes, m) ==
  LET label == matchLabel(m)
  IN IF ~hasNode(nodes, m.id) THEN Append(nodes, [id |-> m.id, label |-> label])
     ELSE [i \in 1..Len(nodes) |->
             IF nodes[i].id = m.id THEN [nodes[i] EXCEPT !.label = label]
             ELSE nodes[i]]

\* The body of matches.forEach: nodes.set for a new id, the label update
\* for a known one.
addMatch(nodes, m) ==
  LET label == matchLabel(m)
  IN IF ~hasNode(nodes, m.id) THEN Append(nodes, [id |-> m.id, label |-> label])
     ELSE IF label # m.id
          THEN [i \in 1..Len(nodes) |->
                  IF nodes[i].id = m.id THEN [nodes[i] EXCEPT !.label = label]
                  ELSE nodes[i]]
          ELSE nodes

RECURSIVE addMatches(_, _)
addMatches(nodes, ms) ==
  IF ms = << >> THEN nodes ELSE addMatches(addMatch(nodes, Head(ms)), Tail(ms))

RECURSIVE skipSpace(_, _)
skipSpace(s, i) ==
  IF i <= Len(s) /\ s[i] \in WhiteSpace THEN skipSpace(s, i + 1) ELSE i

\* /\s*--?>?\s*/ matched at q: the index after the match, or 0.
arrowMatchAt(s, q) ==
  LET d == skipSpace(s, q)
  IN IF d > Len(s) \/ s[d] # "-" THEN 0
     ELSE LET d2 == IF d + 1 <= Len(s) /\ s[d + 1] = "-" THEN d + 2 ELSE d + 1
              d3 == IF d2 <= Len(s) /\ s[d2] = ">" THEN d2 + 1 ELSE d2
          IN skipSpace(s, d3)

\* cleanLine.split(/\s*--?>?\s*/): p starts the current part, q scans.
RECURSIVE splitArrow(_, _, _)
splitArrow(s, p, q) ==
  IF q > Len(s) THEN << Sub(s, p, Len(s)) >>
  ELSE LET e == arrowMatchAt(s, q)
       IN IF e = 0 THEN splitArrow(s, p, q + 1)
          ELSE << Sub(s, p, q - 1) >> \o splitArrow(s, e, e)

\* part.match(/([a-zA-Z0-9_]+)/): the first identifier run, << >> for null.
RECURSIVE firstId(_, _)
firstId(s, p) ==
  IF p > Len(s) THEN << >>
  ELSE IF s[p] \in IdChars THEN Sub(s, p, idRunEnd(s, p) - 1)
  ELSE firstId(s, p + 1)

\* The for loop over adjacent parts.
RECURSIVE partEdges(_, _)
partEdges(parts, i) ==
  IF i >= Len(parts) THEN << >>
  ELSE LET sourceRaw == firstId(parts[i], 1)
           targetRaw == firstId(parts[i + 1], 1)
       IN (IF sourceRaw # << >> /\ targetRaw # << >>
           THEN << [source |-> sourceRaw, target |-> targetRaw] >> ELSE << >>)
          \o partEdges(parts, i + 1)

lineEdges(cleanLine) ==
  LET parts == splitArrow(cleanLine, 1, 1)
  IN IF Len(parts) > 1 THEN partEdges(parts, 1) ELSE << >>

\* The callback of lines.forEach.
parseLine(g, line) ==
  LET cleanLine == trim(line)
  IN IF skipLine(cleanLine) THEN g
     ELSE [nodes |-> addMatches(g.nodes, matchAllNodes(cleanLine, 1)),
           edges |-> g.edges \o lineEdges(cleanLine)]

RECURSIVE parseLines(_, _)
parseLines(g, lines) ==
  IF lines = << >> THEN g ELSE parseLines(parseLine(g, Head(lines)), Tail(lines))

parseMermaid(text) ==
  parseLines([nodes |-> << >>, edges |-> << >>], splitLines(text))

\* ------------------------------------------------------- linkOrphansToRoot

\* The key "__proto__". `incoming` is a plain object ({}): an assignment to
\* this key runs the inherited accessor, which ignores a number, so the key
\* never holds a count and reads as Object.prototype, which is not 0.
ProtoKey == << "_","_","p","r","o","t","o","_","_" >>

nodeIds(nodes) == { nodes[i].id : i \in 1..Len(nodes) }

\* The number of ++ the forEach over data.edges applies to incoming[id].
incomingCount(edges, id) == Cardinality({ i \in 1..Len(edges) : edges[i].target = id })

\* incoming[n.id] === 0 for a node n.
incomingIsZero(edges, id) == id # ProtoKey /\ incomingCount(edges, id) = 0

UpperCase ==
  << "A","B","C","D","E","F","G","H","I","J","K","L","M","N","O","P","Q","R",
     "S","T","U","V","W","X","Y","Z" >>
LowerCase ==
  << "a","b","c","d","e","f","g","h","i","j","k","l","m","n","o","p","q","r",
     "s","t","u","v","w","x","y","z" >>

toLowerCase(s) ==
  [i \in 1..Len(s) |->
     IF \E k \in 1..26 : UpperCase[k] = s[i]
     THEN LowerCase[CHOOSE k \in 1..26 : UpperCase[k] = s[i]]
     ELSE s[i]]

includes(s, sub) ==
  \E i \in 1..(Len(s) - Len(sub) + 1) : Sub(s, i, i + Len(sub) - 1) = sub

HomeKw == << "h","o","m","e" >>

\* r.label.toLowerCase().includes('home')
isHome(r) == includes(toLowerCase(r.label), HomeKw)

\* roots.find(isHome) || roots[0]
mainRootOf(roots) ==
  IF \E i \in 1..Len(roots) : isHome(roots[i])
  THEN roots[CHOOSE i \in 1..Len(roots) :
               isHome(roots[i]) /\ \A j \in 1..(i - 1) : ~isHome(roots[j])]
  ELSE roots[1]

\* The roots.forEach that pushes the new edges.
RECURSIVE orphanEdges(_, _)
orphanEdges(roots, mainRoot) ==
  IF roots = << >> THEN << >>
  ELSE (IF Head(roots).id # mainRoot.id
        THEN << [source |-> mainRoot.id, target |-> Head(roots).id] >> ELSE << >>)
       \o orphanEdges(Tail(roots), mainRoot)

linkOrphansToRoot(data) ==
  LET isRoot(n) == incomingIsZero(data.edges, n.id)
      roots == SelectSeq(data.nodes, isRoot)
  IN IF Len(roots) > 1
     THEN [data EXCEPT !.edges = data.edges \o orphanEdges(roots, mainRootOf(roots))]
     ELSE data

\* -------------------------------------------------------- assignNodeLevels

\* adj[id] after the forEach over data.edges.
RECURSIVE adjOf(_, _)
adjOf(edges, id) ==
  IF edges = << >> THEN << >>
  ELSE (IF Head(edges).source = id THEN << Head(edges).target >> ELSE << >>)
       \o adjOf(Tail(edges), id)

\* data.nodes.find(n => n.id === nid), as an index; 0 for undefined.
findNode(nodes, nid) ==
  IF \E i \in 1..Len(nodes) : nodes[i].id = nid
  THEN CHOOSE i \in 1..Len(nodes) :
         nodes[i].id = nid /\ \A j \in 1..(i - 1) : nodes[j].id # nid
  ELSE 0

\* neighbors.forEach: the queue holds indices into nodes.
RECURSIVE visitNeighbors(_, _, _, _)
visitNeighbors(nodes, queue, neighbors, level) ==
  IF neighbors = << >> THEN [nodes |-> nodes, queue |-> queue]
  ELSE LET k == findNode(nodes, Head(neighbors))
       IN IF k # 0 /\ nodes[k].level = -1
          THEN visitNeighbors([nodes EXCEPT ![k].level = level + 1],
                              Append(queue, k), Tail(neighbors), level)
          ELSE visitNeighbors(nodes, queue, Tail(neighbors), level)

\* while (queue.length > 0)
RECURSIVE bfsLoop(_, _, _)
bfsLoop(nodes, edges, queue) ==
  IF queue = << >> THEN nodes
  ELSE LET current == Head(queue)
           r == visitNeighbors(nodes, Tail(queue),
                               adjOf(edges, nodes[current].id), nodes[current].level)
       IN bfsLoop(r.nodes, edges, r.queue)

\* data.nodes.find(n => incoming[n.id] === 0) || data.nodes[0], as an index.
rootIndex(nodes, edges) ==
  IF \E i \in 1..Len(nodes) : incomingIsZero(edges, nodes[i].id)
  THEN CHOOSE i \in 1..Len(nodes) :
         /\ incomingIsZero(edges, nodes[i].id)
         /\ \A j \in 1..(i - 1) : ~incomingIsZero(edges, nodes[j].id)
  ELSE IF Len(nodes) > 0 THEN 1 ELSE 0

\* adj[e.source].push(e.target) is a TypeError when adj has no array at
\* e.source, which is when e.source is no node id.
levelsThrow(data) ==
  \E i \in 1..Len(data.edges) : data.edges[i].source \notin nodeIds(data.nodes)

unsetLevels(nodes) ==
  [i \in 1..Len(nodes) |->
     [id |-> nodes[i].id, label |-> nodes[i].label, level |-> -1]]

\* [threw, data]: data as the function leaves it.
assignNodeLevels(data) ==
  LET unset == unsetLevels(data.nodes)
      root == rootIndex(unset, data.edges)
  IN IF levelsThrow(data)
     THEN [threw |-> TRUE, data |-> [data EXCEPT !.nodes = unset]]
     ELSE IF root = 0 THEN [threw |-> FALSE, data |-> [data EXCEPT !.nodes = unset]]
     ELSE [threw |-> FALSE,
           data |-> [data EXCEPT !.nodes =
                       bfsLoop([unset EXCEPT ![root].level = 0], data.edges, << root >>)]]

\* --------------------------------------------------------- calculateLayout

\* g.edges() of the graph library's simple graph: one edge per (v, w), in
\* the order of the first setEdge.
RECURSIVE graphEdges(_, _)
graphEdges(edges, seen) ==
  IF edges = << >> THEN << >>
  ELSE IF Head(edges) \in seen THEN graphEdges(Tail(edges), seen)
  ELSE << Head(edges) >> \o graphEdges(Tail(edges), seen \cup { Head(edges) })

\* setEdge creates a missing endpoint as a node without a label, and the
\* read of node.label in the map is then a TypeError.
layoutThrows(data) ==
  \E i \in 1..Len(data.edges) :
    \/ data.edges[i].source \notin nodeIds(data.nodes)
    \/ data.edges[i].target \notin nodeIds(data.nodes)

\* The outcomes of calculateLayout, [threw, layout]. The library keeps its
\* nodes in plain objects too: what it does with the key "__proto__" is
\* not in the source, so it may throw, keep the node or lose it.
calculateLayout(data) ==
  LET empty == [nodes |-> << >>, edges |-> << >>]
      es    == graphEdges(data.edges, {})
      keyed(n) == n.id # ProtoKey
      done  == [nodes |-> data.nodes, edges |-> es]
      lost  == [nodes |-> SelectSeq(data.nodes, keyed), edges |-> es]
  IN IF layoutThrows(data) THEN { [threw |-> TRUE, layout |-> empty] }
     ELSE IF ProtoKey \in nodeIds(data.nodes)
          THEN { [threw |-> TRUE, layout |-> empty], [threw |-> FALSE, layout |-> done],
                 [threw |-> FALSE, layout |-> lost] }
          ELSE { [threw |-> FALSE, layout |-> done] }

\* ------------------------------------------------------- generateDrawioXml

colors ==
  << [fill |-> "#dae8fc", stroke |-> "#6c8ebf"],
     [fill |-> "#d5e8d4", stroke |-> "#82b366"],
     [fill |-> "#ffe6cc", stroke |-> "#d79b00"],
     [fill |-> "#e1d5e7", stroke |-> "#9673a6"] >>

defaultColor == [fill |-> "#f5f5f5", stroke |-> "#666666"]

\* (node.level >= 0 && node.level < colors.length) ? colors[node.level] : defaultColor
styleObj(level) ==
  IF level >= 0 /\ level < Len(colors) THEN colors[level + 1] ELSE defaultColor

Digits == << "0","1","2","3","4","5","6","7","8","9" >>

\* The decimal text of index in `edge_${index}`.
RECURSIVE decimal(_)
decimal(n) ==
  IF n < 10 THEN << Digits[n + 1] >> ELSE Append(decimal(n \div 10), Digits[(n % 10) + 1])

EdgePrefix == << "e","d","g","e","_" >>

NoId == << >>

\* A cell that is no shape carries no fill and no stroke colour.
noColor == [fill |-> "", stroke |-> ""]

baseCells ==
  << [id |-> << "0" >>, kind |-> "base", parent |-> NoId, value |-> << >>,
      style |-> noColor, source |-> NoId, target |-> NoId],
     [id |-> << "1" >>, kind |-> "base", parent |-> << "0" >>, value |-> << >>,
      style |-> noColor, source |-> NoId, target |-> NoId] >>

nodeCell(node) ==
  [id |-> node.id, kind |-> "vertex", parent |-> << "1" >>, value |-> node.label,
   style |-> styleObj(node.level), source |-> NoId, target |-> NoId]

edgeCell(edge, index) ==
  [id |-> EdgePrefix \o decimal(index), kind |-> "edge", parent |-> << "1" >>,
   value |-> << >>, style |-> noColor,
   source |-> edge.source, target |-> edge.target]

\* The mxCell elements of the document, in document order.
generateDrawioXml(l) ==
  baseCells
  \o [i \in 1..Len(l.nodes) |-> nodeCell(l.nodes[i])]
  \o [i \in 1..Len(l.edges) |-> edgeCell(l.edges[i], i - 1)]

\* ------------------------------------------------------------------ inputs

\* The example of the README.
SampleReadme ==
  << "g","r","a","p","h"," ","T","D","\n"," "," "," "," ","A","[","H","o",
     "m","e","]"," ","-","-",">"," ","B","[","A","b","o","u","t","]","\n",
     " "," "," "," ","A"," ","-","-",">"," ","C","[","P","r","o","d","u",
     "c","t","s","]","\n"," "," "," "," ","A"," ","-","-",">"," ","D","[",
     "C","o","n","t","a","c","t","]","\n"," "," "," "," ","C"," ","-","-",
     ">"," ","E","[","E","l","e","c","t","r","o","n","i","c","s","]","\n",
     " "," "," "," ","C"," ","-","-",">"," ","F","[","C","l","o","t","h",
     "i","n","g","]","\n" >>

\* Two chains that share no node.
SampleOrphans ==
  << "A","[","H","o","m","e","]","-","-",">","B","\n","X","[","O","t","h",
     "e","r","]","-","-",">","Y" >>

\* A chain five nodes deep.
SampleChain ==
  << "f","l","o","w","c","h","a","r","t"," ","T","D","\n","A","-","-",">",
     "B","-","-",">","C","-","-",">","D","-","-",">","E" >>

\* A label that contains a dash.
SampleDashLabel ==
  << "A","[","S","i","g","n","-","u","p","]"," ","-","-",">"," ","B" >>

\* A label that starts a chain of its own.
SampleDashChain ==
  << "A","[","-","B","-","A","]" >>

\* Pages named by numbers.
SampleNumbered ==
  << "0"," ","-","-",">"," ","1","\n","0"," ","-","-",">"," ","e","d","g",
     "e","_","0" >>

\* A dash in the label of the last node of a line.
SampleDashTarget ==
  << "A"," ","-","-",">"," ","B","[","x","-","y","]" >>

\* An identifier first bare, then with a label.
SampleBareThenLabel ==
  << "A","\n","A","[","H","o","m","e","]" >>

\* An identifier first with a label, then bare.
SampleLabelThenBare ==
  << "A","[","H","o","m","e","]","\n","A"," ","-","-",">"," ","B" >>

\* The plain connector of the README.
SamplePlain ==
  << "A"," ","-","-","-"," ","B" >>

\* The directed connector of the README.
SampleArrow ==
  << "A"," ","-","-",">"," ","B" >>

SampleTexts ==
  { SampleReadme, SampleOrphans, SampleChain, SampleDashLabel, SampleDashChain,
    SampleNumbered, SampleDashTarget, SampleBareThenLabel, SampleLabelThenBare,
    SamplePlain, SampleArrow }

\* The pieces the bounded texts of a whole conversion are made of.
ConvTokens ==
  { << "A" >>, << "B" >>, << "[" >>, << "]" >>, << "(" >>, << ")" >>, << "-" >>,
    << ">" >>, << " " >>, << "\n" >>, GraphKw, FlowchartKw }

\* The pieces the bounded texts of parseMermaid are made of: an opening
\* bracket comes with its identifier, so that a short text holds a label.
\* The sample texts bring the spaces.
ParseTokens ==
  { << "A" >>, << "B" >>, << "A", "[" >>, << "B", "(" >>, << "]" >>, << ")" >>,
    << "-" >>, << "\n" >>, GraphKw }

RECURSIVE flatten(_)
flatten(ts) == IF ts = << >> THEN << >> ELSE Head(ts) \o flatten(Tail(ts))

textsUpTo(n) == { flatten(ts) : ts \in UNION { [1..k -> ConvTokens] : k \in 0..n } }

\* The longest text of parseMermaid's bounded inputs, in tokens.
MaxParseTokens == 5

\* The longest bounded text of a whole conversion, in tokens.
MaxConvTokens == 3

\* The sizes of the bounded graphs.
MaxNodes == 3
MaxEdges == 3

GraphIds == { << "A" >>, << "B" >>, << "C" >>, ProtoKey }

HomeLabel == << "M","y"," ","H","o","M","E" >>

isInjective(s) == \A i, j \in 1..Len(s) : i # j => s[i] # s[j]

idSeqs == { s \in UNION { [1..k -> GraphIds] : k \in 1..MaxNodes } : isInjective(s) }

\* Node lists as the parser's Map yields them: no identifier twice, a label
\* that is the identifier or a captured text.
nodeSeqs ==
  UNION { { [i \in 1..Len(s) |-> [id |-> s[i], label |-> IF h[i] THEN HomeLabel ELSE s[i]]]
              : h \in [1..Len(s) -> BOOLEAN] } : s \in idSeqs }

edgeSeqs(ids) ==
  UNION { [1..k -> [source : ids, target : ids]] : k \in 0..MaxEdges }

\* ------------------------------------------------------------------- convert

VARIABLES
  pc,              \* where convert is
  inputFile,       \* the input path: whether it can be read, and its text
  outputFile,      \* what is at the output path
  mermaidContent,
  graphData,
  layout,
  xml,
  reported,        \* what console.error has printed
  completed        \* the stages that have returned, in order

vars == << pc, inputFile, outputFile, mermaidContent, graphData, layout, xml,
           reported, completed >>

emptyGraph == [nodes |-> << >>, edges |-> << >>]

PriorFiles == { [kind |-> "absent", cells |-> << >>], [kind |-> "prior", cells |-> << >>] }

initLocals ==
  /\ mermaidContent = << >>
  /\ graphData = emptyGraph
  /\ layout = emptyGraph
  /\ xml = << >>
  /\ reported = "none"
  /\ completed = << >>

\* fs.readFileSync(inputFile, 'utf8'), inside the try.
ReadInput ==
  /\ pc = "start"
  /\ IF inputFile.readable
     THEN /\ mermaidContent' = inputFile.text
          /\ pc' = "read"
          /\ completed' = Append(completed, "read")
          /\ UNCHANGED reported
     ELSE /\ pc' = "caught"
          /\ reported' = "error"
          /\ UNCHANGED << mermaidContent, completed >>
  /\ UNCHANGED << inputFile, outputFile, graphData, layout, xml >>

\* Parse with the run going on when the parser found no node.
ParseKeepsEmpty ==
  /\ pc = "read"
  /\ graphData' = parseMermaid(mermaidContent)
  /\ completed' = Append(completed, "parse")
  /\ pc' = "parsed"
  /\ UNCHANGED << inputFile, outputFile, mermaidContent, layout, xml, reported >>

\* parseMermaid and the check for an empty node list.
Parse ==
  /\ pc = "read"
  /\ graphData' = parseMermaid(mermaidContent)
  /\ completed' = Append(completed, "parse")
  /\ IF Len(graphData'.nodes) = 0
     THEN pc' = "empty" /\ reported' = "no nodes"
     ELSE pc' = "parsed" /\ UNCHANGED reported
  /\ UNCHANGED << inputFile, outputFile, mermaidContent, layout, xml >>

LinkOrphans ==
  /\ pc = "parsed"
  /\ graphData' = linkOrphansToRoot(graphData)
  /\ completed' = Append(completed, "link")
  /\ pc' = "linked"
  /\ UNCHANGED << inputFile, outputFile, mermaidContent, layout, xml, reported >>

AssignLevels ==
  /\ pc = "linked"
  /\ LET r == assignNodeLevels(graphData)
     IN /\ graphData' = r.data
        /\ IF r.threw
           THEN pc' = "caught" /\ reported' = "error" /\ UNCHANGED completed
           ELSE /\ pc' = "levelled"
                /\ completed' = Append(completed, "levels")
                /\ UNCHANGED reported
  /\ UNCHANGED << inputFile, outputFile, mermaidContent, layout, xml >>

Layout ==
  /\ pc = "levelled"
  /\ \E r \in calculateLayout(graphData) :
       /\ layout' = r.layout
       /\ IF r.threw
          THEN pc' = "caught" /\ reported' = "error" /\ UNCHANGED completed
          ELSE /\ pc' = "laidout"
               /\ completed' = Append(completed, "layout")
               /\ UNCHANGED reported
  /\ UNCHANGED << inputFile, outputFile, mermaidContent, graphData, xml >>

GenerateXml ==
  /\ pc = "laidout"
  /\ xml' = generateDrawioXml(layout)
  /\ completed' = Append(completed, "xml")
  /\ pc' = "generated"
  /\ UNCHANGED << inputFile, outputFile, mermaidContent, graphData, layout, reported >>

\* fs.writeFileSync(outputFile, xml): it writes the document, or it throws
\* with the path untouched (it could not be opened) or cut short.
writeOutcomes(file, doc) ==
  { [threw |-> FALSE, file |-> [kind |-> "xml", cells |-> doc]],
    [threw |-> TRUE, file |-> file],
    [threw |-> TRUE, file |-> [kind |-> "partial", cells |-> << >>]] }

WriteOutput ==
  /\ pc = "generated"
  /\ \E r \in writeOutcomes(outputFile, xml) :
       /\ outputFile' = r.file
       /\ IF r.threw
          THEN pc' = "caught" /\ reported' = "error" /\ UNCHANGED completed
          ELSE /\ pc' = "done"
               /\ completed' = Append(completed, "write")
               /\ UNCHANGED reported
  /\ UNCHANGED << inputFile, mermaidContent, graphData, layout, xml >>

\* A whole conversion, from the call of convert.
Init ==
  /\ pc = "start"
  /\ inputFile \in { [readable |-> FALSE, text |-> << >>] }
                   \cup { [readable |-> TRUE, text |-> t] :
                            t \in textsUpTo(MaxConvTokens) \cup SampleTexts }
  /\ outputFile \in PriorFiles
  /\ initLocals

Next ==
  \/ ReadInput
  \/ Parse
  \/ LinkOrphans
  \/ AssignLevels
  \/ Layout
  \/ GenerateXml
  \/ WriteOutput

Spec == Init /\ [][Next]_vars

\* parseMermaid alone, on every bounded text.
InitParse ==
  /\ pc = "read"
  /\ inputFile = [readable |-> TRUE, text |-> << >>]
  /\ outputFile = [kind |-> "absent", cells |-> << >>]
  /\ \/ \E k \in 0..MaxParseTokens : \E ts \in [1..k -> ParseTokens] :
          mermaidContent = flatten(ts)
     \/ mermaidContent \in SampleTexts
  /\ graphData = emptyGraph
  /\ layout = emptyGraph
  /\ xml = << >>
  /\ reported = "none"
  /\ completed = << "read" >>

SpecParse == InitParse /\ [][Parse]_vars

\* The stages after the parser, on every bounded graph.
InitGraph ==
  /\ pc = "parsed"
  /\ inputFile = [readable |-> TRUE, text |-> << >>]
  /\ outputFile = [kind |-> "absent", cells |-> << >>]
  /\ mermaidContent = << >>
  /\ \E ns \in nodeSeqs : \E es \in edgeSeqs(nodeIds(ns)) :
       graphData = [nodes |-> ns, edges |-> es]
  /\ layout = emptyGraph
  /\ xml = << >>
  /\ reported = "none"
  /\ completed = << "read", "parse" >>

NextGraph ==
  \/ LinkOrphans
  \/ AssignLevels
  \/ Layout
  \/ GenerateXml

SpecGraph == InitGraph /\ [][NextGraph]_vars

\* ------------------------------------------------------------ the parser

parsedState == pc \in { "parsed", "empty" }

countOf(nodes, id) == Cardinality({ i \in 1..Len(nodes) : nodes[i].id = id })

\* C1: every source and every target of every edge parseMermaid returns is
\* the id of exactly one of the nodes it returns, also when a label
\* contains a dash.
C1_EdgeEndpointsAreNodes ==
  parsedState =>
    \A i \in 1..Len(graphData.edges) :
      /\ countOf(graphData.nodes, graphData.edges[i].source) = 1
      /\ countOf(graphData.nodes, graphData.edges[i].target) = 1

\* No identifier has two node entries: the half of C1 that the Map keeps.
NodeIdsAreUnique ==
  parsedState => \A i, j \in 1..Len(graphData.nodes) :
                   i # j => graphData.nodes[i].id # graphData.nodes[j].id

\* The occurrences of identifiers in the text, in order: the matches of
\* nodePattern on the lines that are not skipped.
RECURSIVE occurrencesIn(_)
occurrencesIn(lines) ==
  IF lines = << >> THEN << >>
  ELSE (IF skipLine(trim(Head(lines))) THEN << >>
        ELSE matchAllNodes(trim(Head(lines)), 1))
       \o occurrencesIn(Tail(lines))

occurrences == occurrencesIn(splitLines(mermaidContent))

\* The occurrences of id that carry a label different from id.
descriptive(occ, id) ==
  { i \in 1..Len(occ) : occ[i].id = id /\ occ[i].cap # << >> /\ occ[i].cap # id }

lastOf(S) == CHOOSE x \in S : \A y \in S : y <= x

BareThenLabelled ==
  /\ pc = "parsed"
  /\ LET occ == occurrences
     IN \E i, j \in 1..Len(occ) :
          /\ i < j
          /\ occ[i].id = occ[j].id
          /\ occ[i].cap = << >>
          /\ occ[j].cap # << >> /\ occ[j].cap # occ[j].id
          /\ \E n \in 1..Len(graphData.nodes) :
               graphData.nodes[n].id = occ[j].id /\ graphData.nodes[n].label = occ[j].cap

LetterIds == { << "A" >>, << "B" >> }

Plain == << "-", "-", "-" >>
Arrow == << "-", "-", ">" >>

\* The line `x <connector> y`, with and without the spaces around it.
connectorLines(x, connector, y) ==
  { x \o connector \o y, x \o << " " >> \o connector \o << " " >> \o y }

\* C6: the line `X --- Y` yields the edge (X, Y), as the line `X --> Y` does.
C6_PlainConnectorMakesEdge ==
  \A x, y \in LetterIds :
    (pc = "parsed" /\ mermaidContent \in connectorLines(x, Plain, y))
      => graphData.edges = << [source |-> x, target |-> y] >>

\* The directed connector does yield the edge.
ArrowConnectorMakesEdge ==
  \A x, y \in LetterIds :
    (pc = "parsed" /\ mermaidContent \in connectorLines(x, Arrow, y))
      => graphData.edges = << [source |-> x, target |-> y] >>

\* ------------------------------------------------------------------ convert

StagesBeforeWrite == << "read", "parse", "link", "levels", "layout", "xml" >>

\* C7: the output file changes only in the step after reading, parsing to a
\* non-empty node list, normalization, level assignment, layout and
\* serialization have all returned; a run that stops before that has
\* reported its error, and every run is in a state of convert (no
\* exception leaves it).
C7_WriteOnlyAfterAllStages ==
  /\ [][outputFile' # outputFile =>
          /\ pc = "generated"
          /\ completed = StagesBeforeWrite
          /\ inputFile.readable
          /\ Len(graphData.nodes) > 0]_vars
  /\ [](pc \in { "start", "read", "parsed", "linked", "levelled", "laidout",
                 "generated", "done", "empty", "caught" })
  /\ [](pc = "empty" => reported = "no nodes" /\ Len(graphData.nodes) = 0)
  /\ [](pc = "caught" => reported = "error")
  /\ []((pc \in { "empty", "caught" } /\ completed # StagesBeforeWrite)
          => outputFile \in PriorFiles)

\* A stage after the parser threw, and the file of an earlier run is still
\* at the output path.
C7_Witness ==
  /\ pc = "caught"
  /\ Len(completed) >= 3
  /\ completed # StagesBeforeWrite
  /\ outputFile.kind = "prior"

\* -------------------------------------------------------- generateDrawioXml

serialized == pc \in { "generated", "done" }

Blue == "#dae8fc"
Green == "#d5e8d4"
Orange == "#ffe6cc"
Purple == "#e1d5e7"

\* The shape of the i-th node of the layout.
shapeOf(i) == xml[Len(baseCells) + i]

\* C8: a node of level 3 or more is drawn purple, and the levels 0, 1 and 2
\* blue, green and orange.
C8_DeepLevelsArePurple ==
  serialized =>
    \A i \in 1..Len(layout.nodes) :
      LET level == layout.nodes[i].level
      IN /\ level >= 3 => shapeOf(i).style.fill = Purple
         /\ level = 0 => shapeOf(i).style.fill = Blue
         /\ level = 1 => shapeOf(i).style.fill = Green
         /\ level = 2 => shapeOf(i).style.fill = Orange

\* What the code does: the levels 0 to 3 have their colours.
PaletteOfFourLevels ==
  serialized =>
    \A i \in 1..Len(layout.nodes) :
      LET level == layout.nodes[i].level
      IN /\ level = 3 => shapeOf(i).style.fill = Purple
         /\ level = 0 => shapeOf(i).style.fill = Blue
         /\ level = 1 => shapeOf(i).style.fill = Green
         /\ level = 2 => shapeOf(i).style.fill = Orange

\* C10: the id attributes of the mxCell elements are pairwise distinct.
C10_CellIdsAreDistinct ==
  serialized => \A i, j \in 1..Len(xml) : i # j => xml[i].id # xml[j].id

\* ----------------------------------------------------- the stages on graphs

targetsOf(edges) == { edges[i].target : i \in 1..Len(edges) }

\* The nodes without an incoming edge, as indices, counted over the edges.
zeroIncoming(g) == { i \in 1..Len(g.nodes) : g.nodes[i].id \notin targetsOf(g.edges) }

firstOf(S) == CHOOSE x \in S : \A y \in S : x <= y

\* C2: after linkOrphansToRoot at most one node has no incoming edge.
C2_AtMostOneRoot ==
  pc = "linked" => Cardinality(zeroIncoming(graphData)) <= 1

\* The main root of the claim: the first zero-incoming node whose label
\* contains "home" in any case, or the first zero-incoming node.
claimedMainRoot(g) ==
  LET R == zeroIncoming(g)
      H == { i \in R : isHome(g.nodes[i]) }
  IN IF H # {} THEN firstOf(H) ELSE firstOf(R)

RECURSIVE claimedLinksFrom(_, _, _)
claimedLinksFrom(g, m, i) ==
  IF i > Len(g.nodes) THEN << >>
  ELSE (IF i \in zeroIncoming(g) /\ i # m
        THEN << [source |-> g.nodes[m].id, target |-> g.nodes[i].id] >> ELSE << >>)
       \o claimedLinksFrom(g, m, i + 1)

claimedLinks(g) ==
  IF Cardinality(zeroIncoming(g)) > 1 THEN claimedLinksFrom(g, claimedMainRoot(g), 1)
  ELSE << >>

\* C4: linkOrphansToRoot leaves the nodes and the edges it finds, appends
\* one edge from the main root to every other zero-incoming node, in
\* insertion order, when there are several, and adds nothing when run again
\* on its output.
C4_LinkAppendsRootEdges ==
  [][pc = "parsed" =>
       /\ graphData' = [nodes |-> graphData.nodes,
                        edges |-> graphData.edges \o claimedLinks(graphData)]
       /\ linkOrphansToRoot(graphData') = graphData']_vars

\* The root of the claim: the first node without an incoming edge, or the
\* first node.
claimedRoot(g) == IF zeroIncoming(g) # {} THEN firstOf(zeroIncoming(g)) ELSE 1

\* The identifiers within k hops of id.
RECURSIVE within(_, _, _)
within(g, id, k) ==
  IF k = 0 THEN { id }
  ELSE LET W == within(g, id, k - 1)
       IN W \cup { g.edges[i].target : i \in { j \in 1..Len(g.edges) : g.edges[j].source \in W } }

\* The least number of hops from the root to id, -1 when there is no path.
hops(g, id) ==
  LET r == g.nodes[claimedRoot(g)].id
      K == { k \in 0..Len(g.nodes) : id \in within(g, r, k) }
  IN IF K = {} THEN -1 ELSE firstOf(K)

\* C3: after assignNodeLevels the root has level 0, a node the root reaches
\* has its least number of hops from the root, and any other node has -1.
C3_LevelsAreHopsFromRoot ==
  pc = "levelled" =>
    \A i \in 1..Len(graphData.nodes) :
      graphData.nodes[i].level = hops(graphData, graphData.nodes[i].id)

\* No directed cycle: no edge's target reaches its source.
acyclic(g) ==
  \A i \in 1..Len(g.edges) :
    g.edges[i].source \notin within(g, g.edges[i].target, Len(g.nodes))

\* C9: on a graph without a directed cycle, linkOrphansToRoot and then
\* assignNodeLevels leave no node with the unset level. (The edges that
\* linkOrphansToRoot appends end in nodes without an incoming edge, so the
\* graph has a cycle after it exactly if it had one before.)
C9_AcyclicGraphIsLevelled ==
  (pc = "levelled" /\ acyclic(graphData)) =>
    \A i \in 1..Len(graphData.nodes) : graphData.nodes[i].level >= 0

\* What the code does on graphs without the node __proto__.
ordinary == ProtoKey \notin nodeIds(graphData.nodes)

OrdinaryAtMostOneRoot == ordinary => C2_AtMostOneRoot

OrdinaryLevelsAreHops == ordinary => C3_LevelsAreHopsFromRoot

OrdinaryAcyclicIsLevelled == ordinary => C9_AcyclicGraphIsLevelled

OrdinaryLinkAppendsRootEdges ==
  [][(pc = "parsed" /\ ordinary) =>
       /\ graphData' = [nodes |-> graphData.nodes,
                        edges |-> graphData.edges \o claimedLinks(graphData)]
       /\ linkOrphansToRoot(graphData') = graphData']_vars

====
